---- MODULE Spec2Model ----
(***************************************************************************)
(* Model of rescape_graphene/schema_helpers.py: the per-field CRUD policy, *)
(* the merge with the Django model's reflected properties, the memoized    *)
(* input type generator, the create/update guess, the update_or_create     *)
(* parameter split and the mutation document name.                         *)
(***************************************************************************)
EXTENDS Integers, Sequences, FiniteSets, TLC

VARIABLES
    call,       \* the last call of a pure helper: its name, arguments and result
    cache,      \* the memoizer's cache of input_type_class: memo key -> handle
    handles,    \* every class built by type(...)
    stack,      \* the frames of input_type_class calls in progress (innermost last)
    returned,   \* memo key -> the handles input_type_class has returned for it
    outcome,    \* how the last top-level input_type_class call ended
    threads,    \* per thread: its position inside the memoized input_type_class
    store,      \* the records the mutation endpoint holds: id -> values
    sent,       \* the mutation documents sent so far, in order
    created     \* the ids returned by create mutations

vars == <<call, cache, handles, stack, returned, outcome, threads, store, sent, created>>

----------------------------------------------------------------------------
(* Vocabulary: schema_helpers.py lines 17-39 *)

DENY == "deny"
REQUIRE == "require"
UNIQUE == "unique"
PRIMARY == "primary"
ALLOW == "allow"

CREATE == "create"
READ == "read"
UPDATE == "update"
DELETE == "delete"

CrudOps == {CREATE, READ, UPDATE, DELETE}

Range(s) == {s[i] : i \in DOMAIN s}

\* A missing dict key, None
None == "None"

----------------------------------------------------------------------------
(* The value a field_dict entry holds for a crud key: no entry, one tag     *)
(* (create=REQUIRE) or a list of tags (update=[REQUIRE, UNIQUE]).           *)

NoPerm == [form |-> "absent", tags |-> <<>>]
One(t) == [form |-> "scalar", tags |-> <<t>>]
Many(ts) == [form |-> "list", tags |-> ts]

PermVals ==
    {NoPerm, One(DENY), One(REQUIRE), One(ALLOW), One(UNIQUE),
     Many(<<REQUIRE, UNIQUE>>), Many(<<DENY, UNIQUE>>), Many(<<ALLOW, PRIMARY>>)}

\* R.has(key, dct)
Has(key, dct) == dct[key].form # "absent"

\* R.prop_eq_or(default, key, value, dct): dct[key] == value, default without the key
prop_eq_or(default, key, value, dct) ==
    IF Has(key, dct) THEN dct[key] = One(value) ELSE default

\* R.prop_eq_or_in_or(default, key, value, dct): dct[key] is value or a list holding it
prop_eq_or_in_or(default, key, value, dct) ==
    IF Has(key, dct)
    THEN dct[key] = One(value) \/ (dct[key].form = "list" /\ value \in Range(dct[key].tags))
    ELSE default

\* R.prop_eq_or_in(key, value, dct)
prop_eq_or_in(key, value, dct) == prop_eq_or_in_or(FALSE, key, value, dct)

----------------------------------------------------------------------------
(* field_dict entries.  An entry carries a permission per crud key, the     *)
(* graphene type (after the merge: the scalar class, or the lambda made by  *)
(* related_input_field_for_crud_type), for a relation the graphene_type and *)
(* the nested field_dict (by name), and after the merge the unique list.    *)

NoType == [kind |-> "none", name |-> None, fields |-> None]
ScalarType(n) == [kind |-> "scalar", name |-> n, fields |-> None]
RelatedType(g, fs) == [kind |-> "related", name |-> g, fields |-> fs]

NoUnique == [present |-> FALSE, tags |-> <<>>]
UniqueList(ts) == [present |-> TRUE, tags |-> ts]

Entry(c, r, u, d, t, g, fs, uq) ==
    [create |-> c, read |-> r, update |-> u, delete |-> d,
     type |-> t, graphene_type |-> g, fields |-> fs, unique |-> uq]

\* R.has(key, dct) on a dict held as a function
HasKey(key, dct) == key \in DOMAIN dct

\* The value bags of a mutation: field name -> value
Vals == {1, 2}
ValueKeys == {"id", "key", "name", "data", "defaults", "bar", "zzz"}
ValueBags == UNION {[S -> Vals] : S \in SUBSET ValueKeys}

----------------------------------------------------------------------------
(* guess_update_or_create, instantiate_graphene_type, input_type_fields *)

GuessOnKey(fields_dict) ==
    IF HasKey("id", fields_dict) \/ HasKey("key", fields_dict) THEN UPDATE ELSE CREATE

guess_update_or_create(fields_dict) ==
    IF HasKey("id", fields_dict) THEN UPDATE ELSE CREATE

InstantiateEqOnly(value, crud) ==
    [type |-> value.type, required |-> prop_eq_or(FALSE, crud, REQUIRE, value)]

\* The instantiated field: the resolved type and the required flag handed to it
instantiate_graphene_type(value, crud) ==
    [type |-> value.type, required |-> prop_eq_or_in_or(FALSE, crud, REQUIRE, value)]

\* crud or guess_update_or_create(fields_dict)
EffectiveCrud(fields_dict, crud) ==
    IF crud = None THEN guess_update_or_create(fields_dict) ELSE crud

input_type_fields(fields_dict, crud) ==
    LET c == EffectiveCrud(fields_dict, crud)
        kept == {f \in DOMAIN fields_dict : ~prop_eq_or(FALSE, c, DENY, fields_dict[f])}
    IN [f \in kept |-> instantiate_graphene_type(fields_dict[f], c)]

----------------------------------------------------------------------------
(* The Django models the graphene types wrap: model._meta.fields and        *)
(* model._meta.unique_together.  Django's Field.unique is True for a        *)
(* primary key.                                                             *)

GrapheneTypes == {"FooType", "BarType"}

DjangoField(n, a, c, pk, uq) ==
    [name |-> n, attname |-> a, class |-> c, primary_key |-> pk, unique |-> uq]

DjangoModel(graphene_type) ==
    IF graphene_type = "FooType"
    THEN [fields |-> <<DjangoField("id", "id", "AutoField", TRUE, TRUE),
                       DjangoField("key", "key", "CharField", FALSE, TRUE),
                       DjangoField("name", "name", "CharField", FALSE, FALSE),
                       DjangoField("defaults", "defaults", "CharField", FALSE, TRUE),
                       DjangoField("bar", "bar_id", "ForeignKey", FALSE, FALSE)>>,
          unique_together |-> << <<"key", "bar">> >>]
    ELSE [fields |-> <<DjangoField("id", "id", "AutoField", TRUE, TRUE),
                       DjangoField("key", "key", "CharField", FALSE, TRUE),
                       DjangoField("foo", "foo_id", "ForeignKey", FALSE, FALSE)>>,
          unique_together |-> <<>>]

\* The class -> graphene scalar table of django_to_graphene_type
ScalarTable ==
    [AutoField |-> "Int", IntegerField |-> "Int", BigAutoField |-> "Int",
     CharField |-> "String", BooleanField |-> "Boolean", FloatField |-> "Float",
     TextField |-> "String", JSONField |-> "JSONString"]

\* A lookup that raised
Unmapped == [kind |-> "error", name |-> "KeyError", fields |-> None]

django_to_graphene_type(field, field_dict_value) ==
    IF field_dict_value.graphene_type # None
    THEN RelatedType(field_dict_value.graphene_type, field_dict_value.fields)
    ELSE IF field.class \in DOMAIN ScalarTable
         THEN ScalarType(ScalarTable[field.class])
         ELSE Unmapped

\* The entries of the unique list: a tag, or the array of the field's unique_together groups
Tag(t) == [kind |-> "tag", ids |-> <<t>>]
Groups(gs) == [kind |-> "groups", ids |-> gs]

\* R.compact: the sequence without its None elements
RECURSIVE compact(_)
compact(s) ==
    IF s = <<>> THEN <<>>
    ELSE IF Head(s).kind = "tag" /\ Head(s).ids = <<None>> THEN compact(Tail(s))
         ELSE <<Head(s)>> \o compact(Tail(s))

\* The groups of unique_together that hold attrname, in order (each group stands for its joined names)
RECURSIVE GroupsOf(_, _)
GroupsOf(attrname, unique_together) ==
    IF unique_together = <<>> THEN <<>>
    ELSE (IF attrname \in Range(Head(unique_together)) THEN <<Head(unique_together)>> ELSE <<>>)
         \o GroupsOf(attrname, Tail(unique_together))

\* R.from_pairs_to_array_values of the (attrname, group) pairs: attrname -> its groups
field_to_unique_field_groups(model) ==
    LET attrs == UNION {Range(model.unique_together[i]) : i \in DOMAIN model.unique_together}
    IN [a \in attrs |-> GroupsOf(a, model.unique_together)]

process_field(groups, field, field_dict_value) ==
    [type |-> django_to_graphene_type(field, field_dict_value),
     unique |-> compact(<<IF field.primary_key THEN Tag(PRIMARY) ELSE Tag(None),
                          IF field.unique THEN Tag(UNIQUE) ELSE Tag(None),
                          IF field.attname \in DOMAIN groups
                          THEN Groups(groups[field.attname]) ELSE Tag(None)>>)]

\* The model field named n
ModelField(model, n) ==
    model.fields[CHOOSE i \in DOMAIN model.fields : model.fields[i].name = n]

ModelFieldNames(model) == {model.fields[i].name : i \in DOMAIN model.fields}

parse_django_class(model, field_dict) ==
    LET names == {n \in ModelFieldNames(model) : n \in DOMAIN field_dict}
    IN [n \in names |->
           process_field(field_to_unique_field_groups(model), ModelField(model, n), field_dict[n])]

\* R.merge_deep of one field_dict entry with its parsed properties: a type the entry
\* gives itself takes precedence over the parsed one (a lookup that raised in
\* django_to_graphene_type stays in the result, the merge is never reached)
merge_deep_entry(entry, parsed) ==
    [entry EXCEPT !.type = IF parsed.type = Unmapped THEN Unmapped
                           ELSE IF entry.type # NoType THEN entry.type ELSE parsed.type,
                  !.unique = UniqueList(parsed.unique)]

\* R.merge_deep(left, right) of two dicts of entries
merge_deep(left, right) ==
    [n \in DOMAIN left \cup DOMAIN right |->
        IF n \in DOMAIN left /\ n \in DOMAIN right THEN merge_deep_entry(left[n], right[n])
        ELSE IF n \in DOMAIN left THEN left[n]
        ELSE merge_deep_entry(Entry(NoPerm, NoPerm, NoPerm, NoPerm, NoType, None, None, NoUnique),
                              right[n])]

\* R.pick(keys, dct)
pick(keys, dct) == [n \in keys \cap DOMAIN dct |-> dct[n]]

\* parse_django_class without its filter on field_dict, merged without R.pick
merge_every_model_field(graphene_type, field_dict) ==
    LET model == DjangoModel(graphene_type)
    IN merge_deep(field_dict,
                  [n \in ModelFieldNames(model) |->
                      process_field(field_to_unique_field_groups(model), ModelField(model, n),
                                    IF n \in DOMAIN field_dict THEN field_dict[n]
                                    ELSE Entry(NoPerm, NoPerm, NoPerm, NoPerm, NoType, None, None, NoUnique))])

\* The parsed properties are merged over the field_dict: the model's type replaces the entry's
merge_model_over_policy(graphene_type, field_dict) ==
    LET parsed == parse_django_class(DjangoModel(graphene_type), field_dict)
    IN [n \in DOMAIN field_dict |->
           IF n \in DOMAIN parsed
           THEN [field_dict[n] EXCEPT !.type = parsed[n].type,
                                      !.unique = UniqueList(parsed[n].unique)]
           ELSE field_dict[n]]

merge_with_django_properties(graphene_type, field_dict) ==
    merge_deep(field_dict,
               pick(DOMAIN field_dict, parse_django_class(DjangoModel(graphene_type), field_dict)))

\* A merged dict one of whose types could not be resolved: the merge raised
MergeRaises(merged) == \E n \in DOMAIN merged : merged[n].type = Unmapped

----------------------------------------------------------------------------
(* input_type_parameters_for_update_or_create *)

Raised(e) == [ok |-> FALSE, err |-> e, val |-> <<>>]
Returned(v) == [ok |-> TRUE, err |-> None, val |-> v]

\* R.item_path([key, 'unique'], fields_dict) finds a value
HasUniquePath(key, fields_dict) ==
    HasKey(key, fields_dict) /\ fields_dict[key].unique.present

\* R.length(R.item_path([key, 'unique'], fields_dict))
UniqueLength(key, fields_dict) == Len(fields_dict[key].unique.tags)

\* Keys without an entry go to defaults instead of failing the lookup
partition_lenient(fields_dict, values) ==
    LET tagged == {k \in DOMAIN values :
                      HasUniquePath(k, fields_dict) /\ UniqueLength(k, fields_dict) # 0}
        defaults == [k \in DOMAIN values \ tagged |-> values[k]]
    IN IF "defaults" \in tagged THEN Raised("TypeError")
       ELSE Returned([k \in {"defaults"} \cup tagged |->
                         IF k = "defaults" THEN defaults ELSE values[k]])

\* unique fields land in defaults and the others in the match keys
partition_swapped(fields_dict, values) ==
    IF \E k \in DOMAIN values : ~HasUniquePath(k, fields_dict) THEN Raised("KeyError")
    ELSE LET tagged == {k \in DOMAIN values : UniqueLength(k, fields_dict) = 0}
             defaults == [k \in DOMAIN values \ tagged |-> values[k]]
         IN IF "defaults" \in tagged THEN Raised("TypeError")
            ELSE Returned([k \in {"defaults"} \cup tagged |->
                              IF k = "defaults" THEN defaults ELSE values[k]])

\* dict(defaults=<the values without unique tags>, **<the values with unique tags>):
\* one flat dict; a tagged key named 'defaults' is a repeated keyword argument
input_type_parameters_for_update_or_create(fields_dict, values) ==
    IF \E k \in DOMAIN values : ~HasUniquePath(k, fields_dict) THEN Raised("KeyError")
    ELSE LET tagged == {k \in DOMAIN values : UniqueLength(k, fields_dict) # 0}
             defaults == [k \in DOMAIN values \ tagged |-> values[k]]
         IN IF "defaults" \in tagged THEN Raised("TypeError")
            ELSE Returned([k \in {"defaults"} \cup tagged |->
                              IF k = "defaults" THEN defaults ELSE values[k]])

----------------------------------------------------------------------------
(* graphql_query: the read query form_query formats.  variable_definitions  *)
(* is a dict, held as the sequence of its (key, type) items in dict order.  *)

\* The number of variables a query is given
MaxVariables == 2

VariableKeys == {"id", "name", "key"}
VariableTypes == {"String", "Int"}

VariableDefinitions ==
    {vd \in UNION {[1..n -> [key : VariableKeys, type : VariableTypes]] : n \in 0..MaxVariables} :
        \A i \in DOMAIN vd, j \in DOMAIN vd : vd[i].key = vd[j].key => i = j}

\* '(%s)' % <the joined items>, or '' for no list at all
Parenthesised(items) == [present |-> TRUE, list |-> items]
NoList == [present |-> FALSE, list |-> <<>>]

\* The argument list is written even when there are no variable definitions
query_with_empty_arguments(query_name, fields, variable_definitions, field_overrides) ==
    LET formatted_definitions ==
            [i \in DOMAIN variable_definitions |->
                [variable |-> variable_definitions[i].key,
                 type |-> variable_definitions[i].type, non_null |-> TRUE]]
    IN [operation |-> "someMadeUpString",
        declarations |-> IF formatted_definitions # <<>>
                         THEN Parenthesised(formatted_definitions) ELSE NoList,
        field |-> query_name,
        arguments |-> Parenthesised([i \in DOMAIN variable_definitions |->
                                        [argument |-> variable_definitions[i].key,
                                         variable |-> variable_definitions[i].key]]),
        selection |-> IF field_overrides # {} THEN field_overrides ELSE fields]

\* query someMadeUpString(<$key: type!, ...>) { query_name(<key: $key, ...>) { <keys> } }
graphql_query(query_name, fields, variable_definitions, field_overrides) ==
    LET formatted_definitions ==
            [i \in DOMAIN variable_definitions |->
                [variable |-> variable_definitions[i].key,
                 type |-> variable_definitions[i].type, non_null |-> TRUE]]
    IN [operation |-> "someMadeUpString",
        declarations |-> IF formatted_definitions # <<>>
                         THEN Parenthesised(formatted_definitions) ELSE NoList,
        field |-> query_name,
        arguments |-> IF variable_definitions # <<>>
                      THEN Parenthesised([i \in DOMAIN variable_definitions |->
                                             [argument |-> variable_definitions[i].key,
                                              variable |-> variable_definitions[i].key]])
                      ELSE NoList,
        selection |-> IF field_overrides # {} THEN field_overrides ELSE fields]

----------------------------------------------------------------------------
(* The arguments the helpers are called with *)

\* Entries of an already merged fields_dict with scalar types: any permission for create and update
ScalarEntries ==
    {Entry(c, NoPerm, u, NoPerm, ScalarType("String"), None, None, UniqueList(<<>>)) :
        c \in PermVals, u \in PermVals}

TypedFieldNames == {"id", "name"}
ScalarFieldsDicts == UNION {[S -> ScalarEntries] : S \in SUBSET TypedFieldNames}

\* Policy entries before the merge: a plain one, one with its own type, a relation
PlainEntry == Entry(One(REQUIRE), NoPerm, One(ALLOW), NoPerm, NoType, None, None, NoUnique)
TypedEntry ==
    Entry(One(ALLOW), NoPerm, One(ALLOW), NoPerm, ScalarType("JSONString"), None, None, NoUnique)
RelationEntry(g, fs) ==
    Entry(One(ALLOW), NoPerm, One(ALLOW), NoPerm, NoType, g, fs, NoUnique)

PolicyEntries == {PlainEntry, TypedEntry, RelationEntry("BarType", "bar_id_only")}
PolicyFieldNames == {"id", "key", "name", "data", "bar", "foo"}
PolicyDicts == UNION {[S -> PolicyEntries] : S \in SUBSET PolicyFieldNames}

\* The policy of FooType over the names S: bar a relation, data a field of its own type
FooPolicy(S) ==
    [n \in S |-> IF n = "bar" THEN RelationEntry("BarType", "bar_id_only")
                 ELSE IF n = "data" THEN TypedEntry ELSE PlainEntry]
FooFieldNames == {"id", "key", "name", "data", "defaults", "bar"}

\* Everything but the helper call
machine == <<cache, handles, stack, returned, outcome, threads, store, sent, created>>

Idle == [op |-> "idle", graphene_type |-> None, fields_dict |-> <<>>, crud |-> None,
         values |-> <<>>, result |-> Returned(<<>>)]

----------------------------------------------------------------------------
(* Calls of the helpers that build nothing *)

CallInputTypeFields ==
    /\ call.op = "idle"
    /\ \E fd \in ScalarFieldsDicts, c \in CrudOps \cup {None} :
        call' = [Idle EXCEPT !.op = "input_type_fields", !.fields_dict = fd, !.crud = c,
                             !.result = Returned(input_type_fields(fd, c))]
    /\ UNCHANGED machine

CallGuessUpdateOrCreate ==
    /\ call.op = "idle"
    /\ \E v \in ValueBags :
        call' = [Idle EXCEPT !.op = "guess_update_or_create", !.values = v,
                             !.result = Returned(guess_update_or_create(v))]
    /\ UNCHANGED machine

CallMergeWithDjangoProperties ==
    /\ call.op = "idle"
    /\ \E g \in GrapheneTypes, fd \in PolicyDicts :
        LET merged == merge_with_django_properties(g, fd)
        IN call' = [Idle EXCEPT !.op = "merge_with_django_properties", !.graphene_type = g,
                                !.fields_dict = fd,
                                !.result = IF MergeRaises(merged) THEN Raised("KeyError")
                                           ELSE Returned(merged)]
    /\ UNCHANGED machine

CallInputTypeParameters ==
    /\ call.op = "idle"
    /\ \E S \in SUBSET FooFieldNames, v \in ValueBags :
        LET fd == merge_with_django_properties("FooType", FooPolicy(S))
        IN call' = [Idle EXCEPT !.op = "input_type_parameters_for_update_or_create",
                                !.graphene_type = "FooType", !.fields_dict = fd, !.values = v,
                                !.result = input_type_parameters_for_update_or_create(fd, v)]
    /\ UNCHANGED machine

\* form_query of graphql_query(query_name, fields), up to client.execute
CallGraphqlQuery ==
    /\ call.op = "idle"
    /\ \E query_name \in {"foos", "bars"}, vd \in VariableDefinitions,
          field_overrides \in {{}, {"id"}} :
          call' = [Idle EXCEPT !.op = "graphql_query",
                               !.values = [query_name |-> query_name,
                                           variable_definitions |-> vd,
                                           field_overrides |-> field_overrides],
                               !.result = Returned(graphql_query(query_name, {"id", "name"},
                                                                 vd, field_overrides))]
    /\ UNCHANGED machine

\* The helper has returned; the next call starts from scratch
HelperReturn ==
    /\ call.op # "idle"
    /\ call' = Idle
    /\ UNCHANGED machine

HelperInit ==
    /\ call = Idle
    /\ cache = <<>>
    /\ handles = {}
    /\ stack = <<>>
    /\ returned = {}
    /\ outcome = None
    /\ threads = <<>>
    /\ store = <<>>
    /\ sent = <<>>
    /\ created = {}

HelperNext ==
    \/ CallInputTypeFields
    \/ CallGuessUpdateOrCreate
    \/ CallMergeWithDjangoProperties
    \/ CallInputTypeParameters
    \/ CallGraphqlQuery
    \/ HelperReturn

SpecHelpers == HelperInit /\ [][HelperNext]_vars

----------------------------------------------------------------------------
(* input_type_class: the memoized generator of InputObjectType subclasses.  *)
(* A call is a frame on the stack; it resolves its relation fields by       *)
(* nested calls, then builds its class with type(...) and the memoizer      *)
(* stores it.                                                               *)

\* The field_dicts the callers hold, by name (a nested field_dict is held by reference)
IdEntry == Entry(One(REQUIRE), NoPerm, One(REQUIRE), NoPerm, NoType, None, None, NoUnique)

FieldDictNamed(p) ==
    CASE p = "foo_id_only" -> [id |-> IdEntry]
      [] p = "bar_id_only" -> [id |-> IdEntry]
      [] p = "foo_narrow" ->
            [id |-> IdEntry, name |-> PlainEntry,
             bar |-> RelationEntry("BarType", "bar_id_only")]
      [] p = "bar_narrow" ->
            [id |-> IdEntry, key |-> PlainEntry,
             foo |-> RelationEntry("FooType", "foo_id_only")]
      [] p = "foo_full" ->
            [id |-> IdEntry, name |-> PlainEntry, bar |-> RelationEntry("BarType", "bar_full")]
      [] p = "bar_full" ->
            [id |-> IdEntry, key |-> PlainEntry,
             foo |-> [RelationEntry("FooType", "foo_full") EXCEPT !.read = One(DENY)]]
      [] p = "foo_query" ->
            [id |-> IdEntry, key |-> [PlainEntry EXCEPT !.read = One(DENY)],
             name |-> [PlainEntry EXCEPT !.read = Many(<<DENY, UNIQUE>>)],
             bar |-> RelationEntry("BarType", "bar_id_only")]
      [] p = "foo_flat" -> [id |-> IdEntry, name |-> PlainEntry, key |-> PlainEntry]
      [] p = "note_fields" -> [data |-> TypedEntry]

\* What a caller passes as field_dict_value: the graphene type and its field_dict
FieldDictValues ==
    {[graphene_type |-> "FooType", fields |-> p] : p \in {"foo_id_only", "foo_narrow", "foo_full"}}
    \cup {[graphene_type |-> "BarType", fields |-> p] :
             p \in {"bar_id_only", "bar_narrow", "bar_full"}}
    \cup {[graphene_type |-> "NoteType", fields |-> "note_fields"]}

\* The crud types input_type_class is called with
ClassCruds == {CREATE, UPDATE, READ}

\* hasattr(graphene_class._meta, 'model')
HasModel(graphene_type) == graphene_type \in GrapheneTypes

\* The interpreter's recursion limit, in input_type_class frames
MaxDepth == 4

\* map_args of @memoize, with the field_dict in the key
memo_key_with_fields(field_dict_value, crud) ==
    <<field_dict_value.graphene_type, crud, field_dict_value.fields>>

\* map_args of @memoize: [args[0]['graphene_type'], args[1]]
memo_key(field_dict_value, crud) ==
    <<field_dict_value.graphene_type, crud, None>>

\* The pair a call is for
PairOf(field_dict_value, crud) == <<field_dict_value.graphene_type, crud>>

\* The dict order of the field names
FieldOrder == <<"id", "key", "name", "data", "defaults", "bar", "foo">>

\* The fields of the class body: the merged, filtered, instantiated fields.  The
\* field_dicts named above give every relation field its graphene_type, so the merge
\* finds a type for every field.
ClassFields(field_dict_value, crud) ==
    LET fd == FieldDictNamed(field_dict_value.fields)
    IN input_type_fields(
           IF HasModel(field_dict_value.graphene_type)
           THEN merge_with_django_properties(field_dict_value.graphene_type, fd)
           ELSE fd,
           crud)

\* The relation fields of a class body, in order: each is instantiated by a nested call
RelationFields(fields) ==
    SelectSeq(FieldOrder, LAMBDA n : n \in DOMAIN fields /\ fields[n].type.kind = "related")

Frame(field_dict_value, crud) ==
    LET fields == ClassFields(field_dict_value, crud)
    IN [field_dict_value |-> field_dict_value, crud |-> crud, fields |-> fields,
        todo |-> RelationFields(fields)]

\* The memoizer: a cached class is returned as it is
Cached(field_dict_value, crud) == memo_key(field_dict_value, crud) \in DOMAIN cache

Put(f, k, v) == [x \in DOMAIN f \cup {k} |-> IF x = k THEN v ELSE f[x]]

Record(field_dict_value, crud, h) == returned \cup {<<PairOf(field_dict_value, crud), h>>}

\* What the caller of input_type_class(field_dict_value, crud) holds when it returns class
Return(field_dict_value, crud, class) ==
    [Idle EXCEPT !.op = "input_type_class", !.graphene_type = field_dict_value.graphene_type,
                 !.fields_dict = FieldDictNamed(field_dict_value.fields), !.crud = crud,
                 !.result = Returned(class)]

\* A caller asks for the class of (field_dict_value, crud)
Call ==
    /\ stack = <<>>
    /\ \E fdv \in FieldDictValues, crud \in ClassCruds :
          IF Cached(fdv, crud)
          THEN /\ returned' = Record(fdv, crud, cache[memo_key(fdv, crud)])
               /\ outcome' = "returned"
               /\ call' = Return(fdv, crud, cache[memo_key(fdv, crud)])
               /\ UNCHANGED stack
          ELSE /\ stack' = <<Frame(fdv, crud)>>
               /\ outcome' = "running"
               /\ call' = Idle
               /\ UNCHANGED returned
    /\ UNCHANGED <<cache, handles, threads, store, sent, created>>

\* instantiate_graphene_type of the next relation field: graphene_type(crud) calls
\* input_type_class(field_dict_value, crud) for the nested field_dict
Nested ==
    /\ stack # <<>>
    /\ stack[Len(stack)].todo # <<>>
    /\ LET top == stack[Len(stack)]
           type == top.fields[Head(top.todo)].type
           fdv == [graphene_type |-> type.name, fields |-> type.fields]
       IN IF Cached(fdv, top.crud)
          THEN /\ returned' = Record(fdv, top.crud, cache[memo_key(fdv, top.crud)])
               /\ stack' = [stack EXCEPT ![Len(stack)].todo = Tail(top.todo)]
               /\ UNCHANGED outcome
          ELSE IF Len(stack) < MaxDepth
          THEN /\ stack' = Append(stack, Frame(fdv, top.crud))
               /\ UNCHANGED <<returned, outcome>>
          ELSE \* RecursionError: no frame catches it
               /\ stack' = <<>>
               /\ outcome' = "RecursionError"
               /\ UNCHANGED returned
    /\ UNCHANGED <<call, cache, handles, threads, store, sent, created>>

\* The memoizer stores the class of a call under its key; a key that holds a class keeps it
Register(key, class) == IF key \in DOMAIN cache THEN cache ELSE Put(cache, key, class)

\* The class a call builds: a new object, told from every other class by its identity
NewClass(field_dict_value, crud, fields) ==
    LET pair == PairOf(field_dict_value, crud)
        same == {h \in handles : h.pair = pair /\ h.policy = field_dict_value.fields}
    IN [id |-> <<pair, field_dict_value.fields, Cardinality(same)>>,
        pair |-> pair, policy |-> field_dict_value.fields, fields |-> fields]

\* type(name, (InputObjectType,), fields) builds the class; the memoizer stores and returns it
Build ==
    /\ stack # <<>>
    /\ stack[Len(stack)].todo = <<>>
    /\ stack[Len(stack)].field_dict_value.graphene_type # None
    /\ LET top == stack[Len(stack)]
           class == NewClass(top.field_dict_value, top.crud, top.fields)
           rest == SubSeq(stack, 1, Len(stack) - 1)
       IN /\ handles' = handles \cup {class}
          /\ cache' = Register(memo_key(top.field_dict_value, top.crud), class.id)
          /\ returned' = Record(top.field_dict_value, top.crud,
                                Register(memo_key(top.field_dict_value, top.crud), class.id)
                                    [memo_key(top.field_dict_value, top.crud)])
          /\ IF rest = <<>>
             THEN /\ stack' = <<>>
                  /\ outcome' = "returned"
                  /\ call' = Return(top.field_dict_value, top.crud,
                                    Register(memo_key(top.field_dict_value, top.crud), class.id)
                                        [memo_key(top.field_dict_value, top.crud)])
             ELSE /\ stack' = [rest EXCEPT ![Len(rest)].todo = Tail(rest[Len(rest)].todo)]
                  /\ UNCHANGED <<outcome, call>>
    /\ UNCHANGED <<threads, store, sent, created>>
\* The merged field_dicts allowed_query_arguments is called with: the graphene type and
\* the name of its field_dict
QueryFieldDicts ==
    {[graphene_type |-> None, model |-> "FooType", fields |-> "foo_query"],
     [graphene_type |-> None, model |-> "BarType", fields |-> "bar_full"]}

QueryFields(field_dict_value) ==
    merge_with_django_properties(field_dict_value.model, FieldDictNamed(field_dict_value.fields))

\* The filter of allowed_query_arguments passes DENY when it is listed with another tag
read_allowed_eq_only(fields_dict) ==
    {n \in DOMAIN fields_dict : ~prop_eq_or(FALSE, READ, DENY, fields_dict[n])}

\* R.filter_dict of allowed_query_arguments: the fields whose READ is not DENY
read_allowed(fields_dict) ==
    {n \in DOMAIN fields_dict : ~prop_eq_or_in(READ, DENY, fields_dict[n])}

\* A scalar argument, or the instance of the class made for a relation
Argument(type, class) == [type |-> type, class |-> class]

\* allowed_query_arguments, given the classes its input_type_class calls returned
allowed_query_arguments(fields_dict, classes) ==
    [n \in read_allowed(fields_dict) |->
        IF fields_dict[n].type.kind = "scalar"
        THEN Argument(fields_dict[n].type, None)
        ELSE Argument(fields_dict[n].type,
                      classes[memo_key([graphene_type |-> fields_dict[n].type.name,
                                        fields |-> fields_dict[n].type.fields], READ)])]

\* allowed_query_arguments is called: its relation fields are resolved by calls of
\* input_type_class(value, READ)
CallAllowedQueryArguments ==
    /\ stack = <<>>
    /\ \E fdv \in QueryFieldDicts :
          LET fields_dict == QueryFields(fdv)
              fields == [n \in read_allowed(fields_dict) |-> fields_dict[n]]
          IN stack' = <<[field_dict_value |-> fdv, crud |-> READ, fields |-> fields,
                         todo |-> RelationFields(fields)]>>
    /\ outcome' = "running"
    /\ call' = Idle
    /\ UNCHANGED <<cache, handles, returned, threads, store, sent, created>>

\* Every relation field has its class: the arguments are returned
ReturnAllowedQueryArguments ==
    /\ Len(stack) = 1
    /\ stack[1].todo = <<>>
    /\ stack[1].field_dict_value.graphene_type = None
    /\ LET fields_dict == QueryFields(stack[1].field_dict_value)
       IN call' = [Idle EXCEPT !.op = "allowed_query_arguments",
                               !.graphene_type = stack[1].field_dict_value.model,
                               !.fields_dict = fields_dict,
                               !.result = Returned(allowed_query_arguments(fields_dict, cache))]
    /\ stack' = <<>>
    /\ outcome' = "returned"
    /\ UNCHANGED <<cache, handles, returned, threads, store, sent, created>>


Init ==
    /\ call = Idle
    /\ cache = <<>>
    /\ handles = {}
    /\ stack = <<>>
    /\ returned = {}
    /\ outcome = None
    /\ threads = <<>>
    /\ store = <<>>
    /\ sent = <<>>
    /\ created = {}

Next ==
    \/ Call
    \/ Nested
    \/ Build
    \/ CallAllowedQueryArguments
    \/ ReturnAllowedQueryArguments

Spec == Init /\ [][Next]_vars

----------------------------------------------------------------------------
(* Two threads inside the memoized input_type_class.  Each looks its key up, *)
(* on a miss runs the function, which builds a class, and hands the class to *)
(* the memoizer.  The field_dicts here have no relation fields, so a call    *)
(* makes no nested call.                                                     *)

Threads == {"t1", "t2"}

ThreadFieldDictValues ==
    {[graphene_type |-> "FooType", fields |-> p] : p \in {"foo_id_only", "foo_flat"}}
    \cup {[graphene_type |-> "BarType", fields |-> "bar_id_only"]}

Waiting == [pc |-> "idle", field_dict_value |-> [graphene_type |-> None, fields |-> None],
            crud |-> None, class |-> None, ret |-> None]

\* The memoized function is entered: a hit returns the cached class
ThreadCall(t) ==
    /\ threads[t].pc = "idle"
    /\ \E fdv \in ThreadFieldDictValues, crud \in ClassCruds :
          IF Cached(fdv, crud)
          THEN /\ threads' = [threads EXCEPT ![t] =
                                 [Waiting EXCEPT !.pc = "done", !.field_dict_value = fdv,
                                                 !.crud = crud,
                                                 !.ret = cache[memo_key(fdv, crud)]]]
               /\ returned' = Record(fdv, crud, cache[memo_key(fdv, crud)])
          ELSE /\ threads' = [threads EXCEPT ![t] =
                                 [Waiting EXCEPT !.pc = "miss", !.field_dict_value = fdv,
                                                 !.crud = crud]]
               /\ UNCHANGED returned
    /\ UNCHANGED <<call, cache, handles, stack, outcome, store, sent, created>>

\* The body of input_type_class: type(...) builds a class
ThreadBuild(t) ==
    /\ threads[t].pc = "miss"
    /\ LET class == NewClass(threads[t].field_dict_value, threads[t].crud,
                             ClassFields(threads[t].field_dict_value, threads[t].crud))
       IN /\ handles' = handles \cup {class}
          /\ threads' = [threads EXCEPT ![t].pc = "built", ![t].class = class.id]
    /\ UNCHANGED <<call, cache, stack, returned, outcome, store, sent, created>>

\* The memoizer registers the class and returns the class the key holds
ThreadStore(t) ==
    /\ threads[t].pc = "built"
    /\ LET key == memo_key(threads[t].field_dict_value, threads[t].crud)
           registry == Register(key, threads[t].class)
       IN /\ cache' = registry
          /\ threads' = [threads EXCEPT ![t].pc = "done", ![t].ret = registry[key]]
          /\ returned' = Record(threads[t].field_dict_value, threads[t].crud, registry[key])
    /\ UNCHANGED <<call, handles, stack, outcome, store, sent, created>>

ThreadInit ==
    /\ call = Idle
    /\ cache = <<>>
    /\ handles = {}
    /\ stack = <<>>
    /\ returned = {}
    /\ outcome = None
    /\ threads = [t \in Threads |-> Waiting]
    /\ store = <<>>
    /\ sent = <<>>
    /\ created = {}

ThreadNext ==
    \/ \E t \in Threads : ThreadCall(t)
    \/ \E t \in Threads : ThreadBuild(t)
    \/ \E t \in Threads : ThreadStore(t)

SpecThreads == ThreadInit /\ [][ThreadNext]_vars

----------------------------------------------------------------------------
(* graphql_update_or_create and the endpoint its document is sent to.  The  *)
(* keys used here (id, key, name) are single lower-case words, which the    *)
(* camel-case dump of the values leaves as they are.                        *)

\* mutation_config of a model: class_name and the mutation names by crud type
MutationConfigs ==
    {[class_name |-> "foo", crud |-> [create |-> "createFoo", update |-> "updateFoo"]],
     [class_name |-> "bar", crud |-> [create |-> "createBar", update |-> "updateBar"]]}

MutationKeys == {"id", "key", "name"}
MutationBags == UNION {[S -> Vals] : S \in SUBSET MutationKeys}

\* The number of mutations sent is capped
MaxSent == 2

\* The document names the create mutation whatever the values hold
document_always_create(mutation_config, values) ==
    [mutation |-> <<mutation_config.class_name, "Mutation">>,
     field |-> mutation_config.crud[CREATE],
     argument |-> <<mutation_config.class_name, "Data">>,
     data |-> values,
     selection |-> mutation_config.class_name]

\* The document graphql_update_or_create formats: mutation <name>Mutation
\* { <crud name>(<name>Data: <values>) { <name> { <fields> } } }
graphql_update_or_create(mutation_config, values) ==
    [mutation |-> <<mutation_config.class_name, "Mutation">>,
     field |-> mutation_config.crud[guess_update_or_create(values)],
     argument |-> <<mutation_config.class_name, "Data">>,
     data |-> values,
     selection |-> mutation_config.class_name]

\* client.execute: a create mutation stores a record under a new id, an update mutation
\* changes the record of the id it carries
IsCreate(document) == \E config \in MutationConfigs : document.field = config.crud[CREATE]

NewId == Cardinality(DOMAIN store) + 1

Without(values, k) == [x \in DOMAIN values \ {k} |-> values[x]]

Merge(old, new) == [x \in DOMAIN old \cup DOMAIN new |-> IF x \in DOMAIN new THEN new[x] ELSE old[x]]

Execute(document) ==
    IF IsCreate(document)
    THEN /\ store' = Put(store, NewId, Without(document.data, "id"))
         /\ created' = created \cup {NewId}
    ELSE /\ store' = IF "id" \in DOMAIN document.data /\ document.data["id"] \in DOMAIN store
                     THEN [store EXCEPT ![document.data["id"]] =
                              Merge(@, Without(document.data, "id"))]
                     ELSE store
         /\ UNCHANGED created

\* graphql_update_or_create(mutation_config, fields, client, values) with values of the caller
Upsert ==
    /\ Len(sent) < MaxSent
    /\ \E config \in MutationConfigs, values \in MutationBags :
          LET document == graphql_update_or_create(config, values)
          IN /\ sent' = Append(sent, document)
             /\ Execute(document)
    /\ UNCHANGED <<call, cache, handles, stack, returned, outcome, threads>>

\* The second call of quiz_model_mutation_update: the id of a created record, its key
\* when it has one, and the update values
UpdateCreated ==
    /\ Len(sent) < MaxSent
    /\ \E config \in MutationConfigs, id \in created, update_values \in MutationBags :
          LET values == Merge(Merge([x \in {"id"} |-> id],
                                    IF "key" \in DOMAIN store[id]
                                    THEN [x \in {"key"} |-> store[id]["key"]] ELSE <<>>),
                              update_values)
              document == graphql_update_or_create(config, values)
          IN /\ "id" \notin DOMAIN update_values
             /\ sent' = Append(sent, document)
             /\ Execute(document)
    /\ UNCHANGED <<call, cache, handles, stack, returned, outcome, threads>>

MutationNext ==
    \/ Upsert
    \/ UpdateCreated

SpecMutation == Init /\ [][MutationNext]_vars

----------------------------------------------------------------------------
(* Properties of the helpers *)

\* The tags a field's entry gives for a crud operation, alone or in a list
TagsFor(entry, crud) == Range(entry[crud].tags)

\* The match keys of a returned parameter dict: every key beside 'defaults'
MatchKeys(params) == DOMAIN params \ {"defaults"}

\* C2: a field is in the type generated by input_type_fields for an operation iff its
\* permission for that operation is not DENY, alone or listed with UNIQUE or PRIMARY;
\* a field with no entry for the operation is included.
C2_IncludedIffNotDenied ==
    call.op = "input_type_fields" =>
        LET c == IF call.crud = None
                 THEN (IF "id" \in DOMAIN call.fields_dict THEN UPDATE ELSE CREATE)
                 ELSE call.crud
        IN \A f \in DOMAIN call.fields_dict :
              f \in DOMAIN call.result.val <=> DENY \notin TagsFor(call.fields_dict[f], c)

\* C3: an included field is required iff its permission for the operation is REQUIRE,
\* alone or listed with a uniqueness tag; ALLOW and no entry give an optional field.
C3_RequiredIffRequire ==
    call.op = "input_type_fields" =>
        LET c == IF call.crud = None
                 THEN (IF "id" \in DOMAIN call.fields_dict THEN UPDATE ELSE CREATE)
                 ELSE call.crud
        IN \A f \in DOMAIN call.result.val :
              call.result.val[f].required <=> REQUIRE \in TagsFor(call.fields_dict[f], c)

C3_Witness ==
    /\ call.op = "input_type_fields"
    /\ call.crud = UPDATE
    /\ DOMAIN call.result.val = {"id", "name"}
    /\ call.fields_dict["id"][UPDATE] = Many(<<REQUIRE, UNIQUE>>)
    /\ call.result.val["id"].required
    /\ call.fields_dict["name"][UPDATE] = NoPerm
    /\ ~call.result.val["name"].required

\* C4: guess_update_or_create answers UPDATE exactly when the values hold the key 'id',
\* and CREATE otherwise, whatever else they hold.
C4_UpdateIffId ==
    call.op = "guess_update_or_create" =>
        /\ call.result.val \in {UPDATE, CREATE}
        /\ call.result.val = UPDATE <=> "id" \in DOMAIN call.values

C4_Witness ==
    /\ call.op = "guess_update_or_create"
    /\ DOMAIN call.values = {"key", "name"}
    /\ call.result.val = CREATE

C6_UnknownKeyRaises ==
    (call.op = "input_type_parameters_for_update_or_create"
        /\ \E k \in DOMAIN call.values : k \notin DOMAIN call.fields_dict) =>
        /\ ~call.result.ok
        /\ call.result.err = "KeyError"
        /\ call.result.val = <<>>

C6_Witness ==
    /\ call.op = "input_type_parameters_for_update_or_create"
    /\ DOMAIN call.fields_dict = {"id", "name"}
    /\ DOMAIN call.values = {"id", "zzz"}
    /\ ~call.result.ok

\* C7: the merged dict has exactly the keys of the policy
C7_MergedKeysArePolicyKeys ==
    (call.op = "merge_with_django_properties" /\ call.result.ok) =>
        DOMAIN call.result.val = DOMAIN call.fields_dict

C7_Witness ==
    /\ call.op = "merge_with_django_properties"
    /\ call.graphene_type = "FooType"
    /\ DOMAIN call.fields_dict = {"id", "data", "foo"}
    /\ call.result.ok
    /\ call.result.val["id"].unique.present
    /\ ~call.result.val["data"].unique.present

----------------------------------------------------------------------------
(* Properties of the generator *)

ClassOf(id) == CHOOSE h \in handles : h.id = id

\* C13: the field set of the class returned by input_type_class for (graphene_type, crud)
\* is that of the fields policy passed to that call: exactly the fields of that policy not
\* denied for crud, whatever policy an earlier call for the same pair passed.
C13_FieldsFollowPassedPolicy ==
    (call.op = "input_type_class" /\ call.result.ok) =>
        DOMAIN ClassOf(call.result.val).fields =
            {n \in DOMAIN call.fields_dict : DENY \notin TagsFor(call.fields_dict[n], call.crud)}

\* C16: allowed_query_arguments returns an argument for exactly the fields whose READ
\* permission is not DENY, given alone or inside a list of tags; a field with no READ
\* entry is returned, and the argument of a relation field is the input type generated
\* for READ.
C16_ArgumentsAreReadAllowed ==
    (call.op = "allowed_query_arguments" /\ call.result.ok) =>
        /\ \A n \in DOMAIN call.fields_dict :
              n \in DOMAIN call.result.val <=> DENY \notin TagsFor(call.fields_dict[n], READ)
        /\ \A n \in DOMAIN call.result.val :
              IF call.fields_dict[n].graphene_type = None
              THEN call.result.val[n] = Argument(call.fields_dict[n].type, None)
              ELSE /\ <<call.fields_dict[n].graphene_type, READ, None>> \in DOMAIN cache
                   /\ call.result.val[n].class =
                         cache[<<call.fields_dict[n].graphene_type, READ, None>>]
                   /\ ClassOf(call.result.val[n].class).pair =
                         <<call.fields_dict[n].graphene_type, READ>>

C16_Witness ==
    /\ call.op = "allowed_query_arguments"
    /\ call.result.ok
    /\ DOMAIN call.fields_dict = {"id", "key", "name", "bar"}
    /\ call.fields_dict["name"].read = Many(<<DENY, UNIQUE>>)
    /\ call.fields_dict["key"].read = One(DENY)
    /\ call.fields_dict["id"].read = NoPerm
    /\ DOMAIN call.result.val = {"id", "bar"}
    /\ ClassOf(call.result.val["bar"].class).pair = <<"BarType", READ>>

\* C8: a cycle of full policies ends with a cyclic-relation error: no pair that is still
\* being built is entered again, and the only error a call ends with is that one.
C8_CycleIsRefused ==
    /\ \A i \in DOMAIN stack, j \in DOMAIN stack :
          PairOf(stack[i].field_dict_value, stack[i].crud)
            = PairOf(stack[j].field_dict_value, stack[j].crud) => i = j
    /\ outcome \in {None, "running", "returned", "CyclicRelationError"}

----------------------------------------------------------------------------
(* Properties of the threads *)

----------------------------------------------------------------------------
(* Properties of the mutation document *)

\* C10: the mutation field of every document is the UPDATE name of its mutation_config
\* exactly when the values hold 'id', and the CREATE name otherwise; an upsert that
\* carries the id a create returned is sent as an update, and changes that record only.
C10_FieldFollowsId ==
    \A i \in DOMAIN sent :
       \E config \in MutationConfigs :
          /\ config.class_name = sent[i].selection
          /\ "id" \in DOMAIN sent[i].data => sent[i].field = config.crud[UPDATE]
          /\ "id" \notin DOMAIN sent[i].data => sent[i].field = config.crud[CREATE]
          /\ ("id" \in DOMAIN sent[i].data /\ sent[i].data["id"] \in created)
                => ~IsCreate(sent[i])

C10_Witness ==
    /\ Len(sent) = 2
    /\ sent[1].field = "createFoo"
    /\ sent[2].field = "updateFoo"
    /\ "id" \in DOMAIN sent[2].data
    /\ sent[2].data["id"] \in created
    /\ DOMAIN store = {1}
    /\ "name" \in DOMAIN store[1]
    /\ "name" \in DOMAIN sent[1].data
    /\ "name" \in DOMAIN sent[2].data
    /\ store[1]["name"] = sent[2].data["name"]
    /\ sent[1].data["name"] # sent[2].data["name"]

----------------------------------------------------------------------------
(* Properties of the query document *)

\* C11: the read query declares one typed variable per entry of variable_definitions and
\* binds each to the argument of the same name, one for one; without variable definitions
\* it has no declaration list and no argument list.
C11_OneVariablePerDefinition ==
    call.op = "graphql_query" =>
        LET vd == call.values.variable_definitions
            doc == call.result.val
        IN /\ doc.field = call.values.query_name
           /\ vd = <<>> => (~doc.declarations.present /\ ~doc.arguments.present)
           /\ vd # <<>> => (doc.declarations.present /\ doc.arguments.present)
           /\ Len(doc.declarations.list) = Len(vd)
           /\ Len(doc.arguments.list) = Len(vd)
           /\ \A i \in DOMAIN vd :
                 /\ doc.declarations.list[i].variable = vd[i].key
                 /\ doc.declarations.list[i].type = vd[i].type
                 /\ doc.arguments.list[i].argument = vd[i].key
                 /\ doc.arguments.list[i].variable = vd[i].key

C11_Witness ==
    /\ call.op = "graphql_query"
    /\ Len(call.values.variable_definitions) = 2
    /\ call.values.variable_definitions[1] = [key |-> "name", type |-> "String"]
    /\ call.values.variable_definitions[2] = [key |-> "id", type |-> "Int"]
    /\ call.result.val.arguments.list[2] = [argument |-> "id", variable |-> "id"]

----------------------------------------------------------------------------
(* Properties of the merge with the model *)

\* The scalar class of the model field named n
ModelType(graphene_type, n) ==
    ScalarType(ScalarTable[ModelField(DjangoModel(graphene_type), n).class])

GroupsNaming(model, n) ==
    {model.unique_together[i] : i \in {j \in DOMAIN model.unique_together :
                                          n \in Range(model.unique_together[j])}}

\* The group identifiers held by a reflected unique list
GroupIds(unique) ==
    UNION {Range(unique[i].ids) : i \in {j \in DOMAIN unique : unique[j].kind = "groups"}}

HasTag(unique, t) == \E i \in DOMAIN unique : unique[i].kind = "tag" /\ unique[i].ids = <<t>>

\* C15: for every model field named in the policy the reflected unique list holds PRIMARY
\* iff the field is the primary key, UNIQUE iff the field is unique, one group identifier
\* for each unique_together group that contains the field, and is empty exactly when the
\* field is neither primary, unique nor in a group.
C15_ReflectedUniqueTags ==
    (call.op = "merge_with_django_properties" /\ call.result.ok) =>
        \A n \in DOMAIN call.fields_dict \cap ModelFieldNames(DjangoModel(call.graphene_type)) :
           LET model == DjangoModel(call.graphene_type)
               field == ModelField(model, n)
               unique == call.result.val[n].unique.tags
           IN /\ HasTag(unique, PRIMARY) <=> field.primary_key
              /\ HasTag(unique, UNIQUE) <=> field.unique
              /\ GroupIds(unique) = GroupsNaming(model, n)
              /\ (unique = <<>>) <=>
                    (~field.primary_key /\ ~field.unique /\ GroupsNaming(model, n) = {})

\* C12: the merge fails when the policy names a field the model does not have and the
\* policy entry gives no type of its own; such a field is never passed through.
C12_UnknownPolicyFieldRaises ==
    (call.op = "merge_with_django_properties"
        /\ \E n \in DOMAIN call.fields_dict :
              /\ n \notin ModelFieldNames(DjangoModel(call.graphene_type))
              /\ call.fields_dict[n].type = NoType
              /\ call.fields_dict[n].graphene_type = None) =>
        ~call.result.ok

====
